---- MODULE Spec2Model ----
(***************************************************************************)
(* A model of dddgo's zero-value checker: marker detection, constructor    *)
(* location and the violation scan of pkg/helpers, driven by the Validate  *)
(* entry points of the marker-kind packages.                               *)
(*                                                                         *)
(* Strings that the code builds and takes apart are modelled as tuples of  *)
(* their parts, so that every string operation of the code is an operation *)
(* on the parts:                                                           *)
(*   import path   "a/b/c"                <<"a", "b", "c">>                *)
(*   file path     dir/stem+suffix        <<dir, stem, suffix>>            *)
(*   function name "NewMoney"             <<"New", "Money">>               *)
(*   type key      pkg + "." + name       <<pkg, name>>                    *)
(*   constructor key path:func:typeKey    <<path, func, typeKey>>          *)
(***************************************************************************)
EXTENDS Integers, Sequences, FiniteSets, TLC

VARIABLES
    tree,              \* the files below the root, in the order Walk visits them
    rootErr,           \* TRUE when the root itself cannot be enumerated
    kind,              \* per run: the marker kind of the call
    pc,                \* per run: the phase the call is in
    idx,               \* per run: entries of the current walk already visited
    typeDeclarations,  \* per run: FindTypeDeclarations' map
    constructors,      \* per run: FindConstructors' map
    violations,        \* per run: FindZeroValueInitializations' map
    walkErr,           \* per run: the error the current filepath.Walk returns
    report,            \* per run: the report Validate returned
    err,               \* per run: the error Validate returned
    callerFile,        \* FindProjectRoot: the file name runtime.Caller reports
    callerOk,          \* FindProjectRoot: the ok of runtime.Caller
    goModDirs,         \* the directories in which os.Stat finds go.mod
    current,           \* FindProjectRoot: its local variable current
    rootPc,            \* FindProjectRoot: the place the call is at
    projectRoot,       \* FindProjectRoot: the path it returned
    projectRootErr     \* FindProjectRoot: the error it returned

validateVars == <<tree, rootErr, kind, pc, idx, typeDeclarations, constructors,
                  violations, walkErr, report, err>>

projectRootVars == <<callerFile, callerOk, goModDirs, current, rootPc,
                     projectRoot, projectRootErr>>

vars == <<validateVars, projectRootVars>>

(***************************************************************************)
(* Bounds of the model.                                                    *)
(***************************************************************************)
MaxLine == 3

Lines == 1..MaxLine

Runs == {1, 2}

(***************************************************************************)
(* Marker kinds and their constants.                                       *)
(***************************************************************************)
Kinds == {"ValueObject", "Entity", "Aggregate", "AggregateRoot", "Command"}

LayersPath == <<"github.com", "nobuenhombre", "dddgo", "pkg", "layers",
                "infrastructure", "interface-adapters", "application">>

MarkerField == "_"

ValueObjectFullPackage == LayersPath \o <<"domain", "objects", "value-object">>

EntityFullPackage == LayersPath \o <<"domain", "objects", "entity">>

AggregateFullPackage == LayersPath \o <<"domain", "objects", "aggregate">>

CommandFullPackage == LayersPath \o <<"objects", "commands">>

FullPackage(k) ==
    CASE k = "ValueObject" -> ValueObjectFullPackage
      [] k = "Entity" -> EntityFullPackage
      [] k = "Aggregate" -> AggregateFullPackage
      [] k = "AggregateRoot" -> AggregateFullPackage
      [] k = "Command" -> CommandFullPackage

\* DeclaredName / DeclaredRootName of each marker package
DeclaredName(k) == k

\* the package clause of the file that declares the marker type
PackageName(k) ==
    CASE k = "ValueObject" -> "valueobject"
      [] k = "Entity" -> "entity"
      [] k = "Aggregate" -> "aggregate"
      [] k = "AggregateRoot" -> "aggregate"
      [] k = "Command" -> "commands"

\* the kinds whose package has a Validate entry point
HasValidate(k) == k \in {"ValueObject", "Command"}

(***************************************************************************)
(* Values.                                                                 *)
(***************************************************************************)
NoName == ""            \* an import without explicit name: imp.Name == nil

NoError == "nil"

\* a *Report: the nil pointer, or a pointer to the three maps
NoReport == [nil |-> TRUE, Types |-> {}, Constructors |-> <<>>, Violations |-> {}]

EmptyMap == <<>>

Min(S) == CHOOSE x \in S : \A y \in S : x <= y

LastPart(parts) == parts[Len(parts)]

\* strings.Split(importPath, "/") on the tuple of segments
Split(path) == path

\* ast.Ident, ast.SelectorExpr with an identifier as X, and every other type
Ident(n) == [k |-> "ident", x |-> "", sel |-> n]

Selector(x, n) == [k |-> "sel", x |-> x, sel |-> n]

OtherType == [k |-> "other", x |-> "", sel |-> ""]

\* filepath.Ext and strings.HasSuffix(path, "_test.go") on <<dir, stem, suffix>>
Ext(path) == IF path[3] = "_test.go" THEN ".go" ELSE path[3]

\* mutant: the base name is compared with "_test.go" instead of its suffix
HasTestSuffixAsBase(path) == path[2] = "" /\ path[3] = "_test.go"

HasTestSuffix(path) == path[3] = "_test.go"

\* strings.HasPrefix(name, "New") on <<prefix, rest>>
HasPrefixNew(name) == name[1] = "New"

(***************************************************************************)
(* Marker detection.                                                       *)
(***************************************************************************)
\* mutant: an import is matched by the last part of its path
GetPackageAliasByLastPart(file, fullPackagePath) ==
    LET hits == {i \in 1..Len(file.imports) :
                    LastPart(Split(file.imports[i].path))
                        = LastPart(Split(fullPackagePath))}
    IN  IF hits = {} THEN ""
        ELSE LET imp == file.imports[Min(hits)]
             IN  IF imp.name # NoName THEN imp.name
                 ELSE LastPart(Split(fullPackagePath))

GetPackageAlias(file, fullPackagePath) ==
    LET hits == {i \in 1..Len(file.imports) :
                    file.imports[i].path = fullPackagePath}
    IN  IF hits = {} THEN ""
        ELSE LET imp == file.imports[Min(hits)]
             IN  IF imp.name # NoName THEN imp.name
                 ELSE LastPart(Split(fullPackagePath))

IsSomeObjectTypeDeclaration(file, structType, fullPackage, markerField, declaredName) ==
    LET pkgAlias == GetPackageAlias(file, fullPackage)
    IN  IF pkgAlias = "" THEN FALSE
        ELSE \E i \in 1..Len(structType.fields) :
                LET field == structType.fields[i]
                IN  /\ Len(field.names) = 1
                    /\ field.names[1] = markerField
                    /\ field.typ.k = "sel"
                    /\ field.typ.x = pkgAlias
                    /\ field.typ.sel = declaredName

IsValueObjectTypeDeclaration(file, structType) ==
    IsSomeObjectTypeDeclaration(file, structType, ValueObjectFullPackage,
                                MarkerField, "ValueObject")

IsEntityTypeDeclaration(file, structType) ==
    IsSomeObjectTypeDeclaration(file, structType, EntityFullPackage,
                                MarkerField, "Entity")

IsAggregateTypeDeclaration(file, structType) ==
    IsSomeObjectTypeDeclaration(file, structType, AggregateFullPackage,
                                MarkerField, "Aggregate")

IsAggregateRootTypeDeclaration(file, structType) ==
    IsSomeObjectTypeDeclaration(file, structType, AggregateFullPackage,
                                MarkerField, "AggregateRoot")

IsCommandTypeDeclaration(file, structType) ==
    IsSomeObjectTypeDeclaration(file, structType, CommandFullPackage,
                                MarkerField, "Command")

\* the isTypeDeclaration callback handed to FindTypeDeclarations
IsTypeDeclaration(k, file, structType) ==
    CASE k = "ValueObject" -> IsValueObjectTypeDeclaration(file, structType)
      [] k = "Entity" -> IsEntityTypeDeclaration(file, structType)
      [] k = "Aggregate" -> IsAggregateTypeDeclaration(file, structType)
      [] k = "AggregateRoot" -> IsAggregateRootTypeDeclaration(file, structType)
      [] k = "Command" -> IsCommandTypeDeclaration(file, structType)

TypeKey(pkg, name) == <<pkg, name>>

\* mutant: the callback goes on with what the parser returned besides its error
WalkFuncSkipsKeepsParseError(entry, phase) ==
    \/ phase \in entry.errs
    \/ Ext(entry.path) # ".go"
    \/ HasTestSuffix(entry.path)

\* the walk callbacks' early returns: entry error, extension, test suffix, parse error
WalkFuncSkips(entry, phase) ==
    \/ phase \in entry.errs
    \/ Ext(entry.path) # ".go"
    \/ HasTestSuffix(entry.path)
    \/ ~entry.parses

\* mutant: the callback hands the entry's error back to filepath.Walk
WalkFuncResultReturnsError(entry, phase) ==
    IF phase \in entry.errs THEN "walk error" ELSE NoError

\* every walk callback of the package returns nil on each of its paths
WalkFuncResult(entry, phase) == NoError

\* the ast.Inspect of FindTypeDeclarations over one file
TypeDeclarationsInFile(file, k) ==
    {TypeKey(file.pkg, file.structs[i].name) :
        i \in {j \in 1..Len(file.structs) : IsTypeDeclaration(k, file, file.structs[j])}}

(***************************************************************************)
(* Constructor location.                                                   *)
(***************************************************************************)
MapPut(m, key, value) ==
    [x \in (DOMAIN m) \cup {key} |-> IF x = key THEN value ELSE m[x]]

ConstructorKey(path, funcName, typeKey) == <<path, funcName, typeKey>>

ConstructorInfo(file, start, end) ==
    [File |-> file, StartLine |-> start, EndLine |-> end]

\* mutant: a constructor is looked up among the types its own file declares
VisitFuncDeclSameFileTypes(file, funcDecl, types, m) ==
    IF ~HasPrefixNew(funcDecl.name) THEN m
    ELSE IF Len(funcDecl.results) = 0 THEN m
    ELSE IF funcDecl.results[1].k # "ident" THEN m
    ELSE LET typeKey == TypeKey(file.pkg, funcDecl.results[1].sel)
         IN  IF typeKey \notin types THEN m
             ELSE IF \A i \in 1..Len(file.structs) :
                        file.structs[i].name # funcDecl.results[1].sel THEN m
             ELSE MapPut(m, ConstructorKey(file.path, funcDecl.name, typeKey),
                         ConstructorInfo(file.path, funcDecl.start, funcDecl.end))

\* one *ast.FuncDecl seen by the ast.Inspect of FindConstructors
VisitFuncDecl(file, funcDecl, types, m) ==
    IF ~HasPrefixNew(funcDecl.name) THEN m
    ELSE IF Len(funcDecl.results) = 0 THEN m
    ELSE IF funcDecl.results[1].k # "ident" THEN m
    ELSE LET typeKey == TypeKey(file.pkg, funcDecl.results[1].sel)
         IN  IF typeKey \notin types THEN m
             ELSE MapPut(m, ConstructorKey(file.path, funcDecl.name, typeKey),
                         ConstructorInfo(file.path, funcDecl.start, funcDecl.end))

RECURSIVE ConstructorsInFile(_, _, _, _)
ConstructorsInFile(file, types, m, i) ==
    IF i > Len(file.funcs) THEN m
    ELSE ConstructorsInFile(file, types,
                            VisitFuncDecl(file, file.funcs[i], types, m), i + 1)

(***************************************************************************)
(* Violation scan.                                                         *)
(***************************************************************************)
\* strings.HasSuffix(key, ":" + typeDeclaration): a type key holds no ":", and
\* the last ":" of a constructor key is the one before its type key, so the
\* suffix matches exactly when the key's type key is typeDeclaration
HasTypeSuffix(key, typeDeclaration) == key[3] = typeDeclaration

\* mutant: the span of any type's constructor exempts
IsInsideConstructorOfAnyType(file, line, typeDeclaration, ctors) ==
    \E key \in DOMAIN ctors :
        /\ ctors[key].File = file
        /\ line >= ctors[key].StartLine
        /\ line <= ctors[key].EndLine

\* mutant: a constructor exempts its span of lines in every file
IsInsideConstructorOfAnyFile(file, line, typeDeclaration, ctors) ==
    \E key \in DOMAIN ctors :
        /\ HasTypeSuffix(key, typeDeclaration)
        /\ line >= ctors[key].StartLine
        /\ line <= ctors[key].EndLine

\* mutant: the first line of a constructor is outside its span
IsInsideConstructorBelowStart(file, line, typeDeclaration, ctors) ==
    \E key \in DOMAIN ctors :
        /\ HasTypeSuffix(key, typeDeclaration)
        /\ ctors[key].File = file
        /\ line > ctors[key].StartLine
        /\ line <= ctors[key].EndLine

IsInsideConstructor(file, line, typeDeclaration, ctors) ==
    \E key \in DOMAIN ctors :
        /\ HasTypeSuffix(key, typeDeclaration)
        /\ ctors[key].File = file
        /\ line >= ctors[key].StartLine
        /\ line <= ctors[key].EndLine

\* mutant: ast.Inspect does not go below a statement
LitNodesNotVisited(exprs, i) == <<>>

\* the nodes ast.Inspect hands to the callback for one statement: the statement
\* itself, then every composite literal below it
RECURSIVE LitNodes(_, _)
LitNodes(exprs, i) ==
    IF i > Len(exprs) THEN <<>>
    ELSE (IF exprs[i].form \in {"lit", "addr"}
          THEN <<[k |-> "lit", exprs |-> <<[exprs[i] EXCEPT !.form = "lit"]>>]>>
          ELSE <<>>) \o LitNodes(exprs, i + 1)

RECURSIVE InspectNodes(_, _)
InspectNodes(stmts, i) ==
    IF i > Len(stmts) THEN <<>>
    ELSE <<stmts[i]>> \o LitNodes(stmts[i].exprs, 1) \o InspectNodes(stmts, i + 1)

\* lines 351-370: the composite literal the callback takes from a node, or none
FirstCompositeLit(exprs) ==
    LET hits == {i \in 1..Len(exprs) : exprs[i].form = "lit"}
    IN  IF hits = {} THEN <<>> ELSE <<exprs[Min(hits)]>>

SelectCompositeLit(node) ==
    CASE node.k = "lit" -> <<node.exprs[1]>>
      [] node.k = "assign" -> FirstCompositeLit(node.exprs)
      [] node.k = "return" -> FirstCompositeLit(node.exprs)
      [] OTHER -> <<>>

\* lines 389-408: the package of a selector type, through the file's imports
ResolveSelectorPackage(file, typePackage) ==
    LET hits == {i \in 1..Len(file.imports) :
                    \/ /\ file.imports[i].name # NoName
                       /\ file.imports[i].name = typePackage
                    \/ /\ file.imports[i].name = NoName
                       /\ LastPart(Split(file.imports[i].path)) = typePackage}
    IN  IF hits = {} THEN typePackage
        ELSE LET imp == file.imports[Min(hits)]
             IN  IF imp.name # NoName THEN LastPart(Split(imp.path))
                 ELSE typePackage

\* lines 383-414: the type key of a composite literal, or none
ResolveTypeKey(file, typ) ==
    CASE typ.k = "ident" -> <<TypeKey(file.pkg, typ.sel)>>
      [] typ.k = "sel" -> <<TypeKey(ResolveSelectorPackage(file, typ.x), typ.sel)>>
      [] OTHER -> <<>>

\* mutant: the message of a violation without its line
ViolationWithoutLine(markerName, typeKey, path, line) == <<markerName, typeKey, path, 0>>

Violation(markerName, typeKey, path, line) == <<markerName, typeKey, path, line>>

\* mutant: the callback without its check of len(compLit.Elts)
VisitNodeAnyElts(file, node, markerName, types, ctors, viol) ==
    LET sel == SelectCompositeLit(node)
    IN  IF sel = <<>> THEN viol
        ELSE LET compLit == sel[1]
                 key == ResolveTypeKey(file, compLit.typ)
             IN  IF key = <<>> THEN viol
                 ELSE IF key[1] \notin types THEN viol
                 ELSE IF IsInsideConstructor(file.path, compLit.line, key[1], ctors)
                      THEN viol
                 ELSE viol \cup {Violation(markerName, key[1], file.path, compLit.line)}

\* the ast.Inspect callback of FindZeroValueInitializations on one node
VisitNode(file, node, markerName, types, ctors, viol) ==
    LET sel == SelectCompositeLit(node)
    IN  IF sel = <<>> THEN viol
        ELSE LET compLit == sel[1]
                 key == ResolveTypeKey(file, compLit.typ)
             IN  IF compLit.elts # 0 THEN viol
                 ELSE IF key = <<>> THEN viol
                 ELSE IF key[1] \notin types THEN viol
                 ELSE IF IsInsideConstructor(file.path, compLit.line, key[1], ctors)
                      THEN viol
                 ELSE viol \cup {Violation(markerName, key[1], file.path, compLit.line)}

RECURSIVE ViolationsInNodes(_, _, _, _, _, _, _)
ViolationsInNodes(file, nodes, markerName, types, ctors, viol, i) ==
    IF i > Len(nodes) THEN viol
    ELSE ViolationsInNodes(file, nodes, markerName, types, ctors,
                           VisitNode(file, nodes[i], markerName, types, ctors, viol),
                           i + 1)

ViolationsInFile(file, markerName, types, ctors, viol) ==
    ViolationsInNodes(file, InspectNodes(file.stmts, 1), markerName, types, ctors,
                      viol, 1)

(***************************************************************************)
(* filepath.Walk and the three phases of Validate.                         *)
(***************************************************************************)
Phases == {"types", "constructors", "violations"}

MkFile(path, pkg, parses, errs, imports, structs, funcs, stmts) ==
    [path |-> path, pkg |-> pkg, parses |-> parses, errs |-> errs,
     imports |-> imports, structs |-> structs, funcs |-> funcs, stmts |-> stmts]

\* the root directory itself, the first entry filepath.Walk hands to the callback
RootOf(unreadable) ==
    MkFile(<<"", "root", "">>, "", FALSE, IF unreadable THEN Phases ELSE {},
           <<>>, <<>>, <<>>, <<>>)

\* the entries filepath.Walk hands to the callback: the root, then, when the
\* root can be read, what lies below it
WalkEntries(t, unreadable) ==
    IF unreadable THEN <<RootOf(unreadable)>> ELSE <<RootOf(unreadable)>> \o t

Entries == WalkEntries(tree, rootErr)

\* filepath.Walk stops when the callback returned an error and after the last entry
WalkFinished(r) ==
    \/ idx[r] = Len(Entries)
    \/ walkErr[r] # NoError

\* a local variable of one call: an assignment changes that call's copy only
Store(all, r, value) == [all EXCEPT ![r] = value]

\* mutant: the maps are package-level variables that all calls fill
StoreMapShared(all, r, value) == [q \in DOMAIN all |-> value]

\* the map a phase makes at its start (make(map...)) and fills: one per call
StoreMap(all, r, value) == [all EXCEPT ![r] = value]

WalkStep(r, phase) ==
    /\ pc[r] = phase
    /\ ~WalkFinished(r)
    /\ idx' = [idx EXCEPT ![r] = @ + 1]
    /\ walkErr' = Store(walkErr, r, WalkFuncResult(Entries[idx[r] + 1], phase))
    /\ UNCHANGED projectRootVars

\* lines 169-208: the walk callback of FindTypeDeclarations on the next entry
TypesWalk(r) ==
    /\ WalkStep(r, "types")
    /\ LET entry == Entries[idx[r] + 1]
       IN  typeDeclarations' =
             IF WalkFuncSkips(entry, "types") THEN typeDeclarations
             ELSE StoreMap(typeDeclarations, r,
                        typeDeclarations[r] \cup TypeDeclarationsInFile(entry, kind[r]))
    /\ UNCHANGED <<tree, rootErr, kind, pc, constructors, violations, report, err>>

\* mutant: an empty type set is returned as an error
AfterTypesEmptyIsError(types, e) ==
    IF e # NoError THEN [next |-> "done", err |-> e]
    ELSE IF Cardinality(types) = 0 THEN [next |-> "done", err |-> "no types"]
    ELSE [next |-> "constructors", err |-> NoError]

\* mutant: Validate without its check of len(types)
AfterTypesNoEmptyCheck(types, e) ==
    IF e # NoError THEN [next |-> "done", err |-> e]
    ELSE [next |-> "constructors", err |-> NoError]

\* Validate, lines 115-122, on what FindTypeDeclarations returned
AfterTypes(types, e) ==
    IF e # NoError THEN [next |-> "done", err |-> e]
    ELSE IF Cardinality(types) = 0 THEN [next |-> "done", err |-> NoError]
    ELSE [next |-> "constructors", err |-> NoError]

\* lines 210-214, then the caller: Validate where the kind has one
TypesReturn(r) ==
    /\ pc[r] = "types"
    /\ WalkFinished(r)
    /\ LET e == walkErr[r]
           types == IF e # NoError THEN {} ELSE typeDeclarations[r]
           after == IF HasValidate(kind[r]) THEN AfterTypes(types, e)
                    ELSE [next |-> "done", err |-> e]
       IN  /\ typeDeclarations' = Store(typeDeclarations, r, types)
           /\ pc' = Store(pc, r, after.next)
           /\ err' = Store(err, r, after.err)
           /\ report' = Store(report, r, NoReport)
    /\ idx' = Store(idx, r, 0)
    /\ walkErr' = Store(walkErr, r, NoError)
    /\ UNCHANGED <<tree, rootErr, kind, constructors, violations>>
    /\ UNCHANGED projectRootVars

\* lines 236-282: the walk callback of FindConstructors on the next entry
ConstructorsWalk(r) ==
    /\ WalkStep(r, "constructors")
    /\ LET entry == Entries[idx[r] + 1]
       IN  constructors' =
             IF WalkFuncSkips(entry, "constructors") THEN constructors
             ELSE StoreMap(constructors, r,
                        ConstructorsInFile(entry, typeDeclarations[r],
                                           constructors[r], 1))
    /\ UNCHANGED <<tree, rootErr, kind, pc, typeDeclarations, violations, report, err>>

\* lines 284-288, then Validate, lines 124-127
ConstructorsReturn(r) ==
    /\ pc[r] = "constructors"
    /\ WalkFinished(r)
    /\ LET e == walkErr[r]
       IN  /\ constructors' = Store(constructors, r,
                                    IF e # NoError THEN EmptyMap ELSE constructors[r])
           /\ pc' = Store(pc, r, IF e # NoError THEN "done" ELSE "violations")
           /\ err' = Store(err, r, e)
    /\ idx' = Store(idx, r, 0)
    /\ walkErr' = Store(walkErr, r, NoError)
    /\ UNCHANGED <<tree, rootErr, kind, typeDeclarations, violations, report>>
    /\ UNCHANGED projectRootVars

\* lines 326-432: the walk callback of FindZeroValueInitializations
ViolationsWalk(r) ==
    /\ WalkStep(r, "violations")
    /\ LET entry == Entries[idx[r] + 1]
       IN  violations' =
             IF WalkFuncSkips(entry, "violations") THEN violations
             ELSE StoreMap(violations, r,
                        ViolationsInFile(entry, DeclaredName(kind[r]),
                                         typeDeclarations[r], constructors[r],
                                         violations[r]))
    /\ UNCHANGED <<tree, rootErr, kind, pc, typeDeclarations, constructors, report, err>>

\* mutant: the report lists the types for which a constructor was found
MakeReportTypesWithConstructors(types, ctors, viol) ==
    [nil |-> FALSE,
     Types |-> {T \in types : \E key \in DOMAIN ctors : key[3] = T},
     Constructors |-> ctors, Violations |-> viol]

\* the report Validate builds, lines 134-138
MakeReport(types, ctors, viol) ==
    [nil |-> FALSE, Types |-> types, Constructors |-> ctors, Violations |-> viol]

\* lines 434-438, then Validate, lines 129-138
ViolationsReturn(r) ==
    /\ pc[r] = "violations"
    /\ WalkFinished(r)
    /\ LET e == walkErr[r]
       IN  /\ violations' = Store(violations, r, IF e # NoError THEN {} ELSE violations[r])
           /\ err' = Store(err, r, e)
           /\ report' = Store(report, r,
                              IF e # NoError THEN NoReport
                              ELSE MakeReport(typeDeclarations[r], constructors[r],
                                              violations[r]))
    /\ pc' = Store(pc, r, "done")
    /\ idx' = Store(idx, r, 0)
    /\ walkErr' = Store(walkErr, r, NoError)
    /\ UNCHANGED <<tree, rootErr, kind, typeDeclarations, constructors>>
    /\ UNCHANGED projectRootVars

(***************************************************************************)
(* One call of Validate run alone, from its first line to its return: the  *)
(* three walks one after the other.                                        *)
(***************************************************************************)
RECURSIVE FindTypeDeclarations(_, _, _, _)
FindTypeDeclarations(entries, k, types, i) ==
    IF i > Len(entries) THEN types
    ELSE FindTypeDeclarations(entries, k,
            IF WalkFuncSkips(entries[i], "types") THEN types
            ELSE types \cup TypeDeclarationsInFile(entries[i], k),
            i + 1)

RECURSIVE FindConstructors(_, _, _, _)
FindConstructors(entries, types, m, i) ==
    IF i > Len(entries) THEN m
    ELSE FindConstructors(entries, types,
            IF WalkFuncSkips(entries[i], "constructors") THEN m
            ELSE ConstructorsInFile(entries[i], types, m, 1),
            i + 1)

RECURSIVE FindZeroValueInitializations(_, _, _, _, _, _)
FindZeroValueInitializations(entries, markerName, types, ctors, viol, i) ==
    IF i > Len(entries) THEN viol
    ELSE FindZeroValueInitializations(entries, markerName, types, ctors,
            IF WalkFuncSkips(entries[i], "violations") THEN viol
            ELSE ViolationsInFile(entries[i], markerName, types, ctors, viol),
            i + 1)

Validate(t, unreadable, k) ==
    LET entries == WalkEntries(t, unreadable)
        types == FindTypeDeclarations(entries, k, {}, 1)
        ctors == FindConstructors(entries, types, EmptyMap, 1)
        viol == FindZeroValueInitializations(entries, DeclaredName(k), types, ctors, {}, 1)
    IN  IF AfterTypes(types, NoError).next = "done" THEN NoReport
        ELSE MakeReport(types, ctors, viol)

Next ==
    \E r \in Runs :
        \/ TypesWalk(r)
        \/ TypesReturn(r)
        \/ ConstructorsWalk(r)
        \/ ConstructorsReturn(r)
        \/ ViolationsWalk(r)
        \/ ViolationsReturn(r)

(***************************************************************************)
(* The trees the model runs on.                                            *)
(***************************************************************************)
Import(name, path) == [name |-> name, path |-> path]

Field(names, typ) == [names |-> names, typ |-> typ]

Struct(name, fields) == [name |-> name, fields |-> fields]

\* a method declaration: an *ast.FuncDecl with a receiver
Method(recv, name, results, start, end) ==
    [recv |-> recv, name |-> name, results |-> results, start |-> start, end |-> end]

Func(name, results, start, end) == Method("", name, results, start, end)

Expr(form, typ, elts, line) == [form |-> form, typ |-> typ, elts |-> elts, line |-> line]

Stmt(k, exprs) == [k |-> k, exprs |-> exprs]

Spans == {<<s, e>> \in Lines \X Lines : s <= e}

PlainField == Field(<<"amount">>, Ident("int"))

\* a struct carrying the marker of kind k through the import alias a
Marked(name, a, k) == Struct(name, <<PlainField, Field(<<"_">>, Selector(a, DeclaredName(k)))>>)

MoneyPath == <<"money", "money", ".go">>

\* one file declaring the marked types Money and Cash, with at most one
\* New function and one statement: a literal T{...}, alone or as one of two
\* right-hand sides or results, &T{}, a literal after a call, a literal of an
\* array or map type
ScanFuncs ==
    {<<>>} \cup {<<Func(<<"New", "Money">>, <<Ident(t)>>, sp[1], sp[2])>> :
                    t \in {"Money", "Cash"}, sp \in Spans}

ScanExprs(types) ==
    {Expr("lit", Ident(t), n, l) : t \in types, n \in {0, 1}, l \in Lines}

ScanStmts ==
    {Stmt(k, <<e>>) : k \in {"expr", "assign", "return"}, e \in ScanExprs({"Money", "Cash"})}
    \cup {Stmt(k, <<e1, e2>>) : k \in {"assign", "return"},
                                e1 \in ScanExprs({"Money"}), e2 \in ScanExprs({"Money"})}
    \cup {Stmt(k, <<Expr(x, Ident("Money"), 0, l)>> \o rest) :
            k \in {"assign", "return"}, x \in {"addr", "plain"}, l \in Lines,
            rest \in {<<>>, <<Expr("lit", Ident("Money"), 0, MaxLine)>>}}
    \cup {Stmt("expr", <<Expr("lit", OtherType, 0, l)>>) : l \in Lines}

ScanFile(k, funcs, stmts) ==
    MkFile(MoneyPath, "money", TRUE, {}, <<Import("m", FullPackage(k))>>,
           <<Marked("Money", "m", k), Marked("Cash", "m", k)>>, funcs, stmts)

\* two files of package money: money.go declares Money, use.go (a source file,
\* a test file or no Go file) may declare Cash; each has at most one New
\* function and one empty literal; Walk may visit them in either order
EdgeSpans == {<<1, MaxLine - 1>>, <<2, MaxLine>>}

UsePath(suffix) == <<"money", "use", suffix>>

OneFunc(rest, t, spans) ==
    {<<Func(<<"New", rest>>, <<Ident(t)>>, sp[1], sp[2])>> : sp \in spans}

OneEmptyLit(types) ==
    {<<>>} \cup {<<Stmt("expr", <<Expr("lit", Ident(t), 0, l)>>)>> :
                    t \in types, l \in Lines}

PairFirst(k) ==
    {MkFile(MoneyPath, "money", TRUE, {}, <<Import("m", FullPackage(k))>>,
            <<Marked("Money", "m", k)>>, f, s) :
        f \in {<<>>} \cup OneFunc("Money", "Money", EdgeSpans),
        s \in OneEmptyLit({"Money"})}

PairSecond(k) ==
    {MkFile(UsePath(x), "money", TRUE, {}, <<Import("m", FullPackage(k))>>, d, f, s) :
        x \in {".go", "_test.go", ".txt"},
        d \in {<<>>, <<Marked("Cash", "m", k)>>},
        f \in {<<>>} \cup OneFunc("Money", "Money", EdgeSpans)
                     \cup OneFunc("Cash", "Cash", EdgeSpans),
        s \in OneEmptyLit({"Money", "Cash"})}

\* a file of package shop declaring a struct Money whose marker field and
\* imports vary, alone or next to a file of package money that declares a
\* marker-bearing Money
OtherPackage(k) == <<"example.com", LastPart(FullPackage(k))>>

MarkerImports(k) ==
    LET one == {Import(n, p) : n \in {NoName, "x"},
                               p \in {FullPackage(k), OtherPackage(k)}}
    IN  {<<>>} \cup {<<i>> : i \in one} \cup {<<i, j>> : i \in one, j \in one}

MarkerFields(k) ==
    LET f == {Field(n, t) :
                n \in {<<>>, <<"_">>, <<"x">>},
                t \in {Ident(DeclaredName(k)), Selector("x", DeclaredName(k)),
                       Selector(PackageName(k), DeclaredName(k)),
                       Selector("x", "Other")}}
    IN  {<<x>> : x \in f} \cup {<<PlainField, x>> : x \in f}

ShopFile(k, imports, fields) ==
    MkFile(<<"shop", "shop", ".go">>, "shop", TRUE, {}, imports,
           <<Struct("Money", fields)>>, <<>>,
           <<Stmt("expr", <<Expr("lit", Ident("Money"), 0, 1)>>)>>)

MarkerTrees(k) ==
    UNION {{<<b>>, <<ScanFile(k, <<>>, <<>>), b>>, <<b, ScanFile(k, <<>>, <<>>)>>} :
              b \in {ShopFile(k, i, f) : i \in MarkerImports(k), f \in MarkerFields(k)}}

\* an empty root, and one file that may fail to parse or to be read in some
\* phases, below a root that may fail to be read
ErrorTrees(k) ==
    {<<>>} \cup
    {<<MkFile(MoneyPath, "money", ok, e, <<Import("m", FullPackage(k))>>,
              <<Marked("Money", "m", k)>>,
              <<Func(<<"New", "Money">>, <<Ident("Money")>>, 1, 2)>>,
              <<Stmt("expr", <<Expr("lit", Ident("Money"), 0, l)>>)>>)>> :
        ok \in BOOLEAN, e \in SUBSET Phases, l \in Lines}

\* two calls for different kinds over one file whose structs Money and Cash
\* carry the marker of the first kind, of the second, of both or of neither
Marks(k1, k2) ==
    {<<>>, <<Field(<<"_">>, Selector("a", DeclaredName(k1)))>>,
     <<Field(<<"_">>, Selector("b", DeclaredName(k2)))>>,
     <<Field(<<"_">>, Selector("a", DeclaredName(k1))),
       Field(<<"_">>, Selector("b", DeclaredName(k2)))>>}

DualFiles(k1, k2) ==
    {MkFile(MoneyPath, "money", TRUE, {},
            <<Import("a", FullPackage(k1)), Import("b", FullPackage(k2))>>,
            <<Struct("Money", <<PlainField>> \o m1), Struct("Cash", <<PlainField>> \o m2)>>,
            f, s) :
        m1 \in Marks(k1, k2), m2 \in Marks(k1, k2),
        f \in {<<>>} \cup OneFunc("Money", "Money", EdgeSpans),
        s \in OneEmptyLit({"Money"}) \ {<<>>}}

DualKinds ==
    {<<"ValueObject", "Command">>, <<"ValueObject", "Entity">>, <<"Entity", "Command">>}

\* the import path of the package in directory dir of the tree's module
ModulePath(dir) == <<"example.com", dir>>

\* a file declaring the marked type Money in package money, the directory
\* named as the package or not; a file of package shop that imports it, with
\* or without alias, and may hold a New function whose first result is
\* money.Money, money.Purse or *Money and an empty literal money.Money{};
\* Walk may visit the two in either order
DeclFile(k, dir) ==
    MkFile(<<dir, "money", ".go">>, "money", TRUE, {}, <<Import("m", FullPackage(k))>>,
           <<Marked("Money", "m", k)>>, <<>>, <<>>)

QualifiedFuncs(local) ==
    {<<>>} \cup {<<Func(<<"New", "Money">>, <<res>>, sp[1], sp[2])>> :
                    res \in {Selector(local, "Money"), Selector(local, "Purse"), OtherType},
                    sp \in EdgeSpans}

QualifiedStmts(local) ==
    {<<>>} \cup {<<Stmt(c, <<Expr("lit", Selector(local, "Money"), 0, l)>>)>> :
                    c \in {"expr", "return"}, l \in Lines}

ImportingFile(dir, name, funcs, stmts) ==
    MkFile(<<"shop", "shop", ".go">>, "shop", TRUE, {}, <<Import(name, ModulePath(dir))>>,
           <<>>, funcs, stmts)

QualifiedTrees(k) ==
    UNION {UNION {{<<DeclFile(k, dir), ImportingFile(dir, n, f, s)>>,
                   <<ImportingFile(dir, n, f, s), DeclFile(k, dir)>>} :
                      f \in QualifiedFuncs(IF n = NoName THEN "money" ELSE n),
                      s \in QualifiedStmts(IF n = NoName THEN "money" ELSE n)} :
              dir \in {"money", "go-money"}, n \in {NoName, "gm"}}

\* next to the file declaring the marked money.Money, a file in directory
\* bank, of package money or bank, that declares a struct Money without
\* marker and may hold a New function returning it and an empty Money{}
UnmarkedFile(pkg, funcs, stmts) ==
    MkFile(<<"bank", "money", ".go">>, pkg, TRUE, {}, <<>>,
           <<Struct("Money", <<PlainField>>)>>, funcs, stmts)

UnmarkedTrees(k) ==
    UNION {{<<DeclFile(k, "money"), UnmarkedFile(p, f, s)>>,
            <<UnmarkedFile(p, f, s), DeclFile(k, "money")>>} :
              p \in {"money", "bank"},
              f \in {<<>>} \cup OneFunc("Money", "Money", EdgeSpans),
              s \in OneEmptyLit({"Money"})}

\* one file declaring the marked types Money and Cash with two declarations
\* NewMoney and NewMoney or NewCash, one after the other, functions or methods
\* (two declarations of one name have different receivers), and at most one
\* empty literal
TwoSpans == {p \in Spans \X Spans : p[1][2] < p[2][1]}

Receivers == {<<"", "Mint">>, <<"Bank", "Mint">>, <<"", "">>}

TwoFuncs ==
    {<<Method(rc[1], <<"New", "Money">>, <<Ident(t1)>>, sp[1][1], sp[1][2]),
       Method(rc[2], <<"New", n2>>, <<Ident(t2)>>, sp[2][1], sp[2][2])>> :
        rc \in Receivers, n2 \in {"Money", "Cash"},
        t1 \in {"Money", "Cash"}, t2 \in {"Money", "Cash"}, sp \in TwoSpans}

TwoFuncTrees(k) ==
    {<<ScanFile(k, f, s)>> :
        f \in {g \in TwoFuncs : g[1].name = g[2].name => g[1].recv # g[2].recv},
        s \in OneEmptyLit({"Money", "Cash"})}

\* two files of package money: money.go declares the marked Money, has
\* NewMoney and an empty Money{} outside it; use.go declares the marked Cash,
\* has NewCash and an empty literal, and may fail to parse or to be read in
\* some phases; Walk may visit them in either order
SoundFile(k) ==
    MkFile(MoneyPath, "money", TRUE, {}, <<Import("m", FullPackage(k))>>,
           <<Marked("Money", "m", k)>>,
           <<Func(<<"New", "Money">>, <<Ident("Money")>>, 1, MaxLine - 1)>>,
           <<Stmt("expr", <<Expr("lit", Ident("Money"), 0, MaxLine)>>)>>)

FaultyFiles(k) ==
    {MkFile(UsePath(".go"), "money", ok, e, <<Import("m", FullPackage(k))>>,
            <<Marked("Cash", "m", k)>>,
            <<Func(<<"New", "Cash">>, <<Ident("Cash")>>, 2, MaxLine)>>,
            <<Stmt("expr", <<Expr("lit", Ident(t), 0, l)>>)>>) :
        ok \in BOOLEAN, e \in SUBSET Phases, t \in {"Money", "Cash"},
        l \in {1, MaxLine}}

FaultyTrees(k) ==
    UNION {{<<SoundFile(k), b>>, <<b, SoundFile(k)>>} : b \in FaultyFiles(k)}

\* one file with two statements: an assignment or return of two empty
\* Money{} standing on lines of their own or on one line, then an expression,
\* assignment or return of one empty Money{}
RepeatedStmts ==
    {<<Stmt(c1, <<Expr("lit", Ident("Money"), 0, l[1]),
                  Expr("lit", Ident("Money"), 0, l[2])>>),
       Stmt(c2, <<Expr("lit", Ident("Money"), 0, l[3])>>)>> :
        c1 \in {"assign", "return"}, c2 \in {"expr", "assign", "return"},
        l \in {m \in Lines \X Lines \X Lines : m[1] <= m[2] /\ m[2] <= m[3]}}

RepeatedTrees(k) ==
    {<<ScanFile(k, f, s)>> :
        f \in {<<>>} \cup OneFunc("Money", "Money", EdgeSpans), s \in RepeatedStmts}

\* the state at the start of the calls: run r validates kind ks[r] over root
Start(t, re, ks) ==
    /\ tree = t
    /\ rootErr = re
    /\ kind = ks
    /\ pc = [r \in Runs |-> IF ks[r] = "off" THEN "off" ELSE "types"]
    /\ idx = [r \in Runs |-> 0]
    /\ typeDeclarations = [r \in Runs |-> {}]
    /\ constructors = [r \in Runs |-> EmptyMap]
    /\ violations = [r \in Runs |-> {}]
    /\ walkErr = [r \in Runs |-> NoError]
    /\ report = [r \in Runs |-> NoReport]
    /\ err = [r \in Runs |-> NoError]
    /\ callerFile = <<>>
    /\ callerOk = FALSE
    /\ goModDirs = {}
    /\ current = <<>>
    /\ rootPc = "off"
    /\ projectRoot = <<>>
    /\ projectRootErr = NoError

Init ==
    \/ \E k \in {"ValueObject", "Command"}, f \in ScanFuncs, s \in ScanStmts :
          Start(<<ScanFile(k, f, <<s>>)>>, FALSE, <<k, "off">>)
    \/ \E a \in PairFirst("ValueObject"), b \in PairSecond("ValueObject") :
          \E t \in {<<a, b>>, <<b, a>>} : Start(t, FALSE, <<"ValueObject", "off">>)
    \/ \E k \in Kinds : \E t \in MarkerTrees(k) : Start(t, FALSE, <<k, "off">>)
    \/ \E k \in {"ValueObject", "Command"}, re \in BOOLEAN :
          \E t \in ErrorTrees(k) : Start(t, re, <<k, "off">>)
    \/ \E p \in DualKinds : \E f \in DualFiles(p[1], p[2]) : Start(<<f>>, FALSE, p)
    \/ \E t \in QualifiedTrees("ValueObject") : Start(t, FALSE, <<"ValueObject", "off">>)
    \/ \E t \in UnmarkedTrees("ValueObject") : Start(t, FALSE, <<"ValueObject", "off">>)
    \/ \E t \in TwoFuncTrees("ValueObject") : Start(t, FALSE, <<"ValueObject", "off">>)
    \/ \E t \in RepeatedTrees("ValueObject") : Start(t, FALSE, <<"ValueObject", "off">>)
    \/ \E k \in {"ValueObject", "Command"} :
          \E t \in FaultyTrees(k) : Start(t, FALSE, <<k, "off">>)

Spec == Init /\ [][Next]_vars

(***************************************************************************)
(* The unqualified variant of the helpers, which the older value-object    *)
(* validator carries as private functions: types are keyed by their bare   *)
(* name and constructors by function name + ":" + type name.               *)
(***************************************************************************)
\* typeDeclarations[typeSpec.Name.Name] = true
TypeDeclarationsInFileUnqualified(file, k) ==
    {file.structs[i].name :
        i \in {j \in 1..Len(file.structs) : IsTypeDeclaration(k, file, file.structs[j])}}

ConstructorKeyUnqualified(funcName, typeName) == <<funcName, typeName>>

VisitFuncDeclUnqualified(file, funcDecl, types, m) ==
    IF ~HasPrefixNew(funcDecl.name) THEN m
    ELSE IF Len(funcDecl.results) = 0 THEN m
    ELSE IF funcDecl.results[1].k # "ident" THEN m
    ELSE IF funcDecl.results[1].sel \notin types THEN m
    ELSE MapPut(m, ConstructorKeyUnqualified(funcDecl.name, funcDecl.results[1].sel),
                ConstructorInfo(file.path, funcDecl.start, funcDecl.end))

RECURSIVE ConstructorsInFileUnqualified(_, _, _, _)
ConstructorsInFileUnqualified(file, types, m, i) ==
    IF i > Len(file.funcs) THEN m
    ELSE ConstructorsInFileUnqualified(file, types,
            VisitFuncDeclUnqualified(file, file.funcs[i], types, m), i + 1)

\* strings.HasSuffix(key, ":" + typeDeclaration) on <<funcName, typeName>>: no
\* identifier holds a ":", so the suffix matches exactly the key's type name
IsInsideConstructorUnqualified(file, line, typeDeclaration, ctors) ==
    \E key \in DOMAIN ctors :
        /\ key[2] = typeDeclaration
        /\ ctors[key].File = file
        /\ line >= ctors[key].StartLine
        /\ line <= ctors[key].EndLine

\* the type switch of the variant: the name of an identifier or of a selector
TypeNameUnqualified(typ) ==
    CASE typ.k = "ident" -> <<typ.sel>>
      [] typ.k = "sel" -> <<typ.sel>>
      [] OTHER -> <<>>

VisitNodeUnqualified(file, node, markerName, types, ctors, viol) ==
    LET sel == SelectCompositeLit(node)
    IN  IF sel = <<>> THEN viol
        ELSE LET compLit == sel[1]
                 typeName == TypeNameUnqualified(compLit.typ)
             IN  IF compLit.elts # 0 THEN viol
                 ELSE IF typeName = <<>> THEN viol
                 ELSE IF typeName[1] \notin types THEN viol
                 ELSE IF IsInsideConstructorUnqualified(file.path, compLit.line,
                                                        typeName[1], ctors)
                      THEN viol
                 ELSE viol \cup {Violation(markerName, typeName[1], file.path,
                                           compLit.line)}

RECURSIVE ViolationsInNodesUnqualified(_, _, _, _, _, _, _)
ViolationsInNodesUnqualified(file, nodes, markerName, types, ctors, viol, i) ==
    IF i > Len(nodes) THEN viol
    ELSE ViolationsInNodesUnqualified(file, nodes, markerName, types, ctors,
            VisitNodeUnqualified(file, nodes[i], markerName, types, ctors, viol),
            i + 1)

ViolationsInFileUnqualified(file, markerName, types, ctors, viol) ==
    ViolationsInNodesUnqualified(file, InspectNodes(file.stmts, 1), markerName,
                                 types, ctors, viol, 1)

TypesWalkUnqualified(r) ==
    /\ WalkStep(r, "types")
    /\ LET entry == Entries[idx[r] + 1]
       IN  typeDeclarations' =
             IF WalkFuncSkips(entry, "types") THEN typeDeclarations
             ELSE StoreMap(typeDeclarations, r,
                        typeDeclarations[r]
                            \cup TypeDeclarationsInFileUnqualified(entry, kind[r]))
    /\ UNCHANGED <<tree, rootErr, kind, pc, constructors, violations, report, err>>

ConstructorsWalkUnqualified(r) ==
    /\ WalkStep(r, "constructors")
    /\ LET entry == Entries[idx[r] + 1]
       IN  constructors' =
             IF WalkFuncSkips(entry, "constructors") THEN constructors
             ELSE StoreMap(constructors, r,
                        ConstructorsInFileUnqualified(entry, typeDeclarations[r],
                                                      constructors[r], 1))
    /\ UNCHANGED <<tree, rootErr, kind, pc, typeDeclarations, violations, report, err>>

ViolationsWalkUnqualified(r) ==
    /\ WalkStep(r, "violations")
    /\ LET entry == Entries[idx[r] + 1]
       IN  violations' =
             IF WalkFuncSkips(entry, "violations") THEN violations
             ELSE StoreMap(violations, r,
                        ViolationsInFileUnqualified(entry, DeclaredName(kind[r]),
                                                    typeDeclarations[r],
                                                    constructors[r], violations[r]))
    /\ UNCHANGED <<tree, rootErr, kind, pc, typeDeclarations, constructors, report, err>>

\* one call of the variant's Validate run alone
RECURSIVE FindTypeDeclarationsUnqualified(_, _, _, _)
FindTypeDeclarationsUnqualified(entries, k, types, i) ==
    IF i > Len(entries) THEN types
    ELSE FindTypeDeclarationsUnqualified(entries, k,
            IF WalkFuncSkips(entries[i], "types") THEN types
            ELSE types \cup TypeDeclarationsInFileUnqualified(entries[i], k),
            i + 1)

RECURSIVE FindConstructorsUnqualified(_, _, _, _)
FindConstructorsUnqualified(entries, types, m, i) ==
    IF i > Len(entries) THEN m
    ELSE FindConstructorsUnqualified(entries, types,
            IF WalkFuncSkips(entries[i], "constructors") THEN m
            ELSE ConstructorsInFileUnqualified(entries[i], types, m, 1),
            i + 1)

RECURSIVE FindZeroValueInitializationsUnqualified(_, _, _, _, _, _)
FindZeroValueInitializationsUnqualified(entries, markerName, types, ctors, viol, i) ==
    IF i > Len(entries) THEN viol
    ELSE FindZeroValueInitializationsUnqualified(entries, markerName, types, ctors,
            IF WalkFuncSkips(entries[i], "violations") THEN viol
            ELSE ViolationsInFileUnqualified(entries[i], markerName, types, ctors, viol),
            i + 1)

ValidateUnqualified(t, unreadable, k) ==
    LET entries == WalkEntries(t, unreadable)
        types == FindTypeDeclarationsUnqualified(entries, k, {}, 1)
        ctors == FindConstructorsUnqualified(entries, types, EmptyMap, 1)
        viol == FindZeroValueInitializationsUnqualified(entries, DeclaredName(k), types,
                                                        ctors, {}, 1)
    IN  IF AfterTypes(types, NoError).next = "done" THEN NoReport
        ELSE MakeReport(types, ctors, viol)

NextUnqualified ==
    \E r \in Runs :
        \/ TypesWalkUnqualified(r)
        \/ TypesReturn(r)
        \/ ConstructorsWalkUnqualified(r)
        \/ ConstructorsReturn(r)
        \/ ViolationsWalkUnqualified(r)
        \/ ViolationsReturn(r)

\* two packages in two directories: money declares the marked Money, bank a
\* struct Money with or without marker; each file may hold a function
\* NewMoney and one empty literal; Walk may visit them in either order
PackageFile(k, dir, fields, funcs, stmts) ==
    MkFile(<<dir, dir, ".go">>, dir, TRUE, {}, <<Import("m", FullPackage(k))>>,
           <<Struct("Money", fields)>>, funcs, stmts)

PackageFiles(k, dir, fieldsSet) ==
    {PackageFile(k, dir, d, f, s) :
        d \in fieldsSet,
        f \in {<<>>} \cup OneFunc("Money", "Money", EdgeSpans),
        s \in OneEmptyLit({"Money"})}

PackageTrees(k) ==
    UNION {{<<a, b>>, <<b, a>>} :
              a \in PackageFiles(k, "money", {Marked("Money", "m", k).fields}),
              b \in PackageFiles(k, "bank", {Marked("Money", "m", k).fields,
                                            <<PlainField>>})}

InitUnqualified ==
    \E k \in {"ValueObject", "Command"} :
        \E t \in PackageTrees(k) : Start(t, FALSE, <<k, "off">>)

SpecUnqualified == InitUnqualified /\ [][NextUnqualified]_vars

(***************************************************************************)
(* FindProjectRoot. A path is the tuple of its elements; the empty tuple   *)
(* is the path filepath.Dir maps to itself: the filesystem root of an      *)
(* absolute path, "." of a relative one.                                   *)
(***************************************************************************)
MaxDepth == 3

ErrNoProjectRoot == "cannot find project root"

\* filepath.Dir
Dir(path) == IF Len(path) = 0 THEN path ELSE SubSeq(path, 1, Len(path) - 1)

\* filepath.Join(current, "go.mod")
Join(dir, name) == Append(dir, name)

\* the error of os.Stat on the path of a go.mod
Stat(path) == IF Dir(path) \in goModDirs THEN NoError ELSE "stat error"

\* mutant: the search starts at the parent of the caller's directory
StartDirectoryOfParent(filename) == Dir(Dir(filename))

\* current := filepath.Dir(filename)
StartDirectory(filename) == Dir(filename)

\* a returned string: "" or a path
NoPath == <<>>

SomePath(path) == <<path>>

\* lines 110-115: runtime.Caller(1) and the first value of current
CallerStep ==
    /\ rootPc = "caller"
    /\ IF ~callerOk
       THEN /\ projectRoot' = NoPath
            /\ projectRootErr' = ErrNoProjectRoot
            /\ rootPc' = "done"
            /\ UNCHANGED current
       ELSE /\ current' = StartDirectory(callerFile)
            /\ rootPc' = "loop"
            /\ UNCHANGED <<projectRoot, projectRootErr>>
    /\ UNCHANGED <<callerFile, callerOk, goModDirs>>
    /\ UNCHANGED validateVars

\* lines 117-131: one turn of the loop, and the return after its break
LoopStep ==
    /\ rootPc = "loop"
    /\ IF Stat(Join(current, "go.mod")) = NoError
       THEN /\ projectRoot' = SomePath(current)
            /\ projectRootErr' = NoError
            /\ rootPc' = "done"
            /\ UNCHANGED current
       ELSE LET parent == Dir(current)
            IN  IF parent = current
                THEN /\ projectRoot' = NoPath
                     /\ projectRootErr' = ErrNoProjectRoot
                     /\ rootPc' = "done"
                     /\ UNCHANGED current
                ELSE /\ current' = parent
                     /\ UNCHANGED <<projectRoot, projectRootErr, rootPc>>
    /\ UNCHANGED <<callerFile, callerOk, goModDirs>>
    /\ UNCHANGED validateVars

NextProjectRoot == CallerStep \/ LoopStep

\* the directories down to depth MaxDepth, and the ancestors of one, itself included
Depths == 0..MaxDepth

DirsOfDepth(d) == [1..d -> {"d"}]

Ancestors(dir) == {SubSeq(dir, 1, n) : n \in 0..Len(dir)}

\* the caller's file lies in a directory of depth at most MaxDepth; go.mod
\* files lie in some of its ancestors and, maybe, in a directory beside them
InitProjectRoot ==
    /\ \E d \in Depths : \E dir \in DirsOfDepth(d) :
          /\ callerFile = Join(dir, "caller.go")
          /\ \E on \in SUBSET Ancestors(dir), off \in SUBSET {<<"e">>} :
                goModDirs = on \cup off
    /\ callerOk \in BOOLEAN
    /\ current = <<>>
    /\ rootPc = "caller"
    /\ projectRoot = NoPath
    /\ projectRootErr = NoError
    /\ tree = <<>>
    /\ rootErr = FALSE
    /\ kind = [r \in Runs |-> "off"]
    /\ pc = [r \in Runs |-> "off"]
    /\ idx = [r \in Runs |-> 0]
    /\ typeDeclarations = [r \in Runs |-> {}]
    /\ constructors = [r \in Runs |-> EmptyMap]
    /\ violations = [r \in Runs |-> {}]
    /\ walkErr = [r \in Runs |-> NoError]
    /\ report = [r \in Runs |-> NoReport]
    /\ err = [r \in Runs |-> NoError]

\* the call is one thread of control: a step that can be taken is taken
SpecProjectRoot ==
    InitProjectRoot /\ [][NextProjectRoot]_vars /\ WF_vars(NextProjectRoot)

(***************************************************************************)
(* Vocabulary of the properties.                                           *)
(***************************************************************************)
Done(r) == pc[r] = "done"

Reported(r) == Done(r) /\ ~report[r].nil

Files == {tree[i] : i \in 1..Len(tree)}

\* a non-test Go source file
SourceFile(f) == f.path[3] = ".go"

\* a source file that the walk of a phase reads and parses
Readable(f, phase) == SourceFile(f) /\ f.parses /\ phase \notin f.errs /\ ~rootErr

\* the composite literals of a file, wherever they stand
LiteralsOf(f) ==
    {f.stmts[i].exprs[j] :
        <<i, j>> \in {p \in (1..Len(f.stmts)) \X (1..2) :
                        /\ p[2] <= Len(f.stmts[p[1]].exprs)
                        /\ f.stmts[p[1]].exprs[p[2]].form \in {"lit", "addr"}}}

\* the qualified type of a zero-value occurrence: a bare identifier names a
\* type of the file's own package, a selector the type the scanner resolves
OccurrenceType(f, typ) ==
    IF typ.k = "ident" THEN <<f.pkg, typ.sel>> ELSE ResolveTypeKey(f, typ)[1]

EmptyLiteralAt(f, T, L) ==
    \E e \in LiteralsOf(f) :
        /\ e.elts = 0
        /\ e.line = L
        /\ e.typ.k # "other"
        /\ OccurrenceType(f, e.typ) = T

\* a Constructor Record of ctors for type T in the file at path whose span holds L
Exempted(ctors, T, path, L) ==
    \E key \in DOMAIN ctors :
        /\ key[3] = T
        /\ ctors[key].File = path
        /\ ctors[key].StartLine <= L
        /\ L <= ctors[key].EndLine

(***************************************************************************)
(* C1: in a returned report, Violations holds a record for (T, F, L), T a   *)
(* marked type and F a non-test file the scan read, exactly when an empty   *)
(* literal T{} stands at F:L and no Constructor Record for exactly T has    *)
(* File F and a span that holds L.                                          *)
(***************************************************************************)
C1_ViolationIffOutsideOwnConstructor ==
    \A r \in Runs :
        Reported(r) =>
            report[r].Violations =
                {Violation(DeclaredName(kind[r]), x[1], x[2].path, x[3]) :
                    x \in {y \in report[r].Types \X Files \X Lines :
                            /\ Readable(y[2], "violations")
                            /\ EmptyLiteralAt(y[2], y[1], y[3])
                            /\ ~Exempted(report[r].Constructors, y[1], y[2].path, y[3])}}

\* NewMoney in F, one violation for Money at a line of F outside NewMoney, and
\* an empty Money{} inside NewMoney that is not reported
C1_Witness ==
    \E r \in Runs :
        /\ Reported(r)
        /\ Cardinality(report[r].Violations) = 1
        /\ \E v \in report[r].Violations, key \in DOMAIN report[r].Constructors :
              LET c == report[r].Constructors[key]
              IN  /\ key[3] = v[2]
                  /\ c.File = v[3]
                  /\ (v[4] < c.StartLine \/ v[4] > c.EndLine)
                  /\ \E f \in Files, L \in c.StartLine..c.EndLine :
                        f.path = v[3] /\ EmptyLiteralAt(f, v[2], L)

(***************************************************************************)
(* C6: a Constructor Record whose File is G never exempts an empty literal  *)
(* in another file F: when no constructor of marked type T is in F, every   *)
(* empty T{} in a non-test file F the scan read is reported, whatever its   *)
(* line.                                                                    *)
(***************************************************************************)
C6_ConstructorExemptsOwnFileOnly ==
    \A r \in Runs :
        Reported(r) =>
            \A T \in report[r].Types, f \in Files, L \in Lines :
                /\ Readable(f, "violations")
                /\ EmptyLiteralAt(f, T, L)
                /\ \A key \in DOMAIN report[r].Constructors :
                      key[3] = T => report[r].Constructors[key].File # f.path
                => Violation(DeclaredName(kind[r]), T, f.path, L) \in report[r].Violations

\* the only constructor of T is in G, its span holds L, and T{} at F:L is reported
C6_Witness ==
    \E r \in Runs :
        /\ Reported(r)
        /\ \E v \in report[r].Violations, key \in DOMAIN report[r].Constructors :
              /\ key[3] = v[2]
              /\ report[r].Constructors[key].StartLine <= v[4]
              /\ v[4] <= report[r].Constructors[key].EndLine
              /\ \A k2 \in DOMAIN report[r].Constructors :
                    report[r].Constructors[k2].File # v[3]

(***************************************************************************)
(* C7: a file whose path ends in _test.go contributes nothing to any phase: *)
(* no violation names it, no Constructor Record has it as File, and every   *)
(* type in Types is declared by a struct of some non-test source file.      *)
(***************************************************************************)
DeclaredIn(f, T) ==
    \E i \in 1..Len(f.structs) : TypeKey(f.pkg, f.structs[i].name) = T

C7_TestFilesContributeNothing ==
    \A r \in Runs :
        /\ \A v \in violations[r] : v[3][3] # "_test.go"
        /\ \A key \in DOMAIN constructors[r] :
              /\ constructors[r][key].File[3] # "_test.go"
              /\ key[1][3] # "_test.go"
        /\ \A T \in typeDeclarations[r] :
              \E f \in Files : SourceFile(f) /\ DeclaredIn(f, T)

\* a test file that declares a marked struct, has a New function for it and
\* holds an empty literal of a type in Types; the report names none of them
C7_Witness ==
    \E r \in Runs :
        /\ Reported(r)
        /\ \E f \in Files :
              /\ f.path[3] = "_test.go"
              /\ Len(f.structs) > 0
              /\ Len(f.funcs) > 0
              /\ TypeKey(f.pkg, f.funcs[1].results[1].sel) = TypeKey(f.pkg, f.structs[1].name)
              /\ TypeKey(f.pkg, f.structs[1].name) \notin report[r].Types
              /\ \E T \in report[r].Types, L \in Lines : EmptyLiteralAt(f, T, L)

(***************************************************************************)
(* C8: a composite literal with at least one element never produces a       *)
(* violation: every violation record stands at the line of an empty literal *)
(* of its type, also when the statement holds a non-empty literal as well.  *)
(***************************************************************************)
C8_OnlyEmptyLiteralsReported ==
    \A r \in Runs :
        \A v \in violations[r] :
            \E f \in Files : f.path = v[3] /\ EmptyLiteralAt(f, v[2], v[4])

\* an assignment or return holding a non-empty and an empty literal of one
\* marked type on different lines: one violation, at the empty literal's line
C8_Witness ==
    \E r \in Runs :
        /\ Reported(r)
        /\ \E f \in Files :
              /\ Len(f.stmts) = 1
              /\ f.stmts[1].k \in {"assign", "return"}
              /\ Len(f.stmts[1].exprs) = 2
              /\ LET a == f.stmts[1].exprs[1]
                     b == f.stmts[1].exprs[2]
                 IN  /\ a.elts > 0
                     /\ b.elts = 0
                     /\ a.line # b.line
                     /\ a.typ = b.typ
                     /\ report[r].Violations =
                          {Violation(DeclaredName(kind[r]), OccurrenceType(f, b.typ),
                                     f.path, b.line)}

(***************************************************************************)
(* What the properties call marker-bearing: a struct with a field named _   *)
(* whose type is <local name>.<marker type name>, the local name being that *)
(* of an import of the marker's declaring package in the struct's file: the *)
(* import's explicit name, or the declaring package's own name.             *)
(***************************************************************************)
Active(r) == pc[r] # "off"

ImportsOf(f, path) == {i \in 1..Len(f.imports) : f.imports[i].path = path}

LocalNames(f, k) ==
    {IF f.imports[i].name # NoName THEN f.imports[i].name ELSE PackageName(k) :
        i \in ImportsOf(f, FullPackage(k))}

CarriesMarker(f, s, k) ==
    \E i \in 1..Len(s.fields) :
        /\ s.fields[i].names = <<"_">>
        /\ s.fields[i].typ.k = "sel"
        /\ s.fields[i].typ.sel = DeclaredName(k)
        /\ s.fields[i].typ.x \in LocalNames(f, k)

StructsOf(f) == {f.structs[i] : i \in 1..Len(f.structs)}

(***************************************************************************)
(* C2: for the kinds with a Validate entry point, a readable root that is   *)
(* empty or holds no marker-bearing struct makes Validate return a nil      *)
(* report with a nil error.                                                 *)
(***************************************************************************)
C2_NoMarkedTypesSignal ==
    \A r \in Runs :
        /\ Done(r)
        /\ HasValidate(kind[r])
        /\ ~rootErr
        /\ \A f \in Files : \A s \in StructsOf(f) : ~CarriesMarker(f, s, kind[r])
        => report[r].nil /\ err[r] = NoError

\* a tree with a struct whose _ field is no marker: nil report, nil error
C2_Witness ==
    \E r \in Runs :
        /\ Done(r)
        /\ HasValidate(kind[r])
        /\ ~rootErr
        /\ \E f \in Files : \E s \in StructsOf(f) :
              \E i \in 1..Len(s.fields) : s.fields[i].names = <<"_">>
        /\ \A f \in Files : \A s \in StructsOf(f) : ~CarriesMarker(f, s, kind[r])
        /\ report[r].nil
        /\ err[r] = NoError

(***************************************************************************)
(* C3: when the root itself cannot be enumerated, Validate returns a        *)
(* non-nil error, not the nil report with a nil error.                      *)
(***************************************************************************)
C3_RootErrorIsReturned ==
    \A r \in Runs :
        Done(r) /\ HasValidate(kind[r]) /\ rootErr => err[r] # NoError

(***************************************************************************)
(* C4: for every marker kind, a struct of a file that imports the marker's  *)
(* declaring package (once) is detected when its _ field is typed           *)
(* x.<MarkerTypeName> under the import's explicit alias x, and when the     *)
(* import has no alias and the field is typed                               *)
(* <declaring package's name>.<MarkerTypeName>.                             *)
(***************************************************************************)
C4_AliasedAndUnaliasedDetected ==
    \A r \in Runs :
        Active(r) /\ pc[r] # "types" =>
            \A f \in Files : \A s \in StructsOf(f) :
                /\ Readable(f, "types")
                /\ Cardinality(ImportsOf(f, FullPackage(kind[r]))) = 1
                /\ CarriesMarker(f, s, kind[r])
                => TypeKey(f.pkg, s.name) \in typeDeclarations[r]

(***************************************************************************)
(* C5: a type is in Types only through a struct of a non-test source file   *)
(* that imports the marker's declaring package by its exact path and has a  *)
(* field named _ of a package-qualified type: an unqualified _ field, an    *)
(* embedding without the name _ and a file without that import never add a  *)
(* type, whatever another file declares and whatever alias other imports    *)
(* have.                                                                    *)
(***************************************************************************)
MarkerShaped(f, s, k) ==
    /\ ImportsOf(f, FullPackage(k)) # {}
    /\ \E i \in 1..Len(s.fields) :
          s.fields[i].names = <<"_">> /\ s.fields[i].typ.k = "sel"

C9_ReportOrErrorNeverBoth ==
    \A r \in Runs :
        /\ ~(err[r] # NoError /\ ~report[r].nil)
        /\ ~report[r].nil => err[r] = NoError /\ report[r].Types # {}

\* a returned report with types and a violation, and no error
C9_Witness ==
    \E r \in Runs :
        /\ Reported(r)
        /\ report[r].Violations # {}
        /\ err[r] = NoError

(***************************************************************************)
(* C10: two validations for different marker kinds over one tree give       *)
(* independent reports. Each call returns what it returns when run alone,   *)
(* however the two interleave; it returns the same over the tree with the   *)
(* other kind's marker fields taken out; and a type that carries only the   *)
(* other kind's marker is in none of its Types, Constructors, Violations.   *)
(***************************************************************************)
IsMarkerFieldOf(field, k) ==
    /\ field.names = <<"_">>
    /\ field.typ.k = "sel"
    /\ field.typ.sel = DeclaredName(k)

RECURSIVE DropMarkerFields(_, _, _)
DropMarkerFields(fields, k, i) ==
    IF i > Len(fields) THEN <<>>
    ELSE (IF IsMarkerFieldOf(fields[i], k) THEN <<>> ELSE <<fields[i]>>)
         \o DropMarkerFields(fields, k, i + 1)

\* the tree without the marker fields of kind k
WithoutMarker(t, k) ==
    [i \in 1..Len(t) |->
        [t[i] EXCEPT !.structs =
            [j \in 1..Len(t[i].structs) |->
                [t[i].structs[j] EXCEPT !.fields = DropMarkerFields(@, k, 1)]]]]

OtherRuns(r) == {q \in Runs \ {r} : Active(q)}

C10_KindsValidateIndependently ==
    \A r \in Runs :
        Done(r) =>
            /\ typeDeclarations[r] =
                 FindTypeDeclarations(WalkEntries(tree, rootErr), kind[r], {}, 1)
            /\ HasValidate(kind[r]) =>
                 /\ err[r] = NoError
                 /\ report[r] = Validate(tree, rootErr, kind[r])
                 /\ \A q \in OtherRuns(r) :
                       /\ report[r] = Validate(WithoutMarker(tree, kind[q]), rootErr, kind[r])
                       /\ \A f \in Files : \A s \in StructsOf(f) :
                             /\ CarriesMarker(f, s, kind[q])
                             /\ ~CarriesMarker(f, s, kind[r])
                             => /\ TypeKey(f.pkg, s.name) \notin report[r].Types
                                /\ \A key \in DOMAIN report[r].Constructors :
                                      key[3] # TypeKey(f.pkg, s.name)
                                /\ \A v \in report[r].Violations :
                                      v[2] # TypeKey(f.pkg, s.name)

\* both calls returned a report: Money carries both markers and is reported
\* as a violation by both, Cash carries one marker and is in one report
C10_Witness ==
    /\ \A r \in Runs : Reported(r)
    /\ kind[1] # kind[2]
    /\ \E f \in Files :
          /\ \A r \in Runs :
                /\ CarriesMarker(f, f.structs[1], kind[r])
                /\ TypeKey(f.pkg, f.structs[1].name) \in report[r].Types
                /\ \E v \in report[r].Violations : v[2] = TypeKey(f.pkg, f.structs[1].name)
          /\ CarriesMarker(f, f.structs[2], kind[1])
          /\ ~CarriesMarker(f, f.structs[2], kind[2])
          /\ TypeKey(f.pkg, f.structs[2].name) \in report[1].Types
          /\ TypeKey(f.pkg, f.structs[2].name) \notin report[2].Types

(***************************************************************************)
(* What the properties call the type an expression identifies. A package   *)
(* is a directory of the tree; its name is the package clause of its files *)
(* and its import path is the module path of its directory. In a file, a   *)
(* bare identifier T names the struct T of the file's own package, and a   *)
(* selector p.T the struct T of the package the file imports under the     *)
(* local name p: the import's alias, or the imported package's name.       *)
(***************************************************************************)
DirOf(f) == f.path[1]

FilesIn(dir) == {f \in Files : DirOf(f) = dir}

Dirs == {DirOf(f) : f \in Files}

\* the local name under which file f knows the package of directory dir
LocalNamesOf(f, dir) ==
    {IF f.imports[i].name # NoName THEN f.imports[i].name
     ELSE (CHOOSE g \in FilesIn(dir) : TRUE).pkg :
        i \in ImportsOf(f, ModulePath(dir))}

\* the directories whose struct typ.sel the type expression typ names in file f
Denoted(f, typ) ==
    CASE typ.k = "ident" -> {DirOf(f)}
      [] typ.k = "sel" -> {d \in Dirs : typ.x \in LocalNamesOf(f, d)}
      [] OTHER -> {}

\* the struct name of directory dir carries the marker of kind k
MarkedIn(dir, name, k) ==
    \E f \in FilesIn(dir) : \E s \in StructsOf(f) :
        /\ Readable(f, "types")
        /\ s.name = name
        /\ CarriesMarker(f, s, k)

\* the type expression typ in file f identifies a marked type of kind k
IdentifiesMarked(f, typ, k) == \E d \in Denoted(f, typ) : MarkedIn(d, typ.sel, k)

FuncsOf(f) == {f.funcs[i] : i \in 1..Len(f.funcs)}

\* no other declaration of the file has the function's name
NameUniqueIn(f, fn) ==
    Cardinality({i \in 1..Len(f.funcs) : f.funcs[i].name = fn.name}) = 1

\* no other directory of the tree holds a package of the same name
PackageNameUnique(f) == \A g \in Files : g.pkg = f.pkg => DirOf(g) = DirOf(f)

\* the Constructor Records of ctors that a function declaration of f accounts for
RecordsOf(ctors, f, fn) ==
    {key \in DOMAIN ctors :
        /\ key[1] = f.path
        /\ key[2] = fn.name
        /\ ctors[key] = ConstructorInfo(f.path, fn.start, fn.end)}

(***************************************************************************)
(* C11: a function of a non-test file whose name begins with New (the only  *)
(* declaration of that name in its file) and whose first result type        *)
(* identifies a marked type has a Constructor Record with its file and its  *)
(* start and end lines, whether the type is written Money or pkg.Money; a   *)
(* New function whose first result identifies no marked type has no record, *)
(* and no error is returned.                                                *)
(***************************************************************************)
C11_QualifiedAndUnqualifiedResultsRecorded ==
    \A r \in Runs :
        Reported(r) =>
            /\ err[r] = NoError
            /\ \A f \in Files : \A fn \in FuncsOf(f) :
                  /\ Readable(f, "constructors")
                  /\ HasPrefixNew(fn.name)
                  /\ Len(fn.results) > 0
                  /\ NameUniqueIn(f, fn)
                  /\ PackageNameUnique(f)
                  => IF IdentifiesMarked(f, fn.results[1], kind[r])
                     THEN RecordsOf(report[r].Constructors, f, fn) # {}
                     ELSE RecordsOf(report[r].Constructors, f, fn) = {}

(***************************************************************************)
(* C12: constructors of one marked type accumulate. Every declaration of a  *)
(* non-test file, function or method, that matches the constructor rule for *)
(* a marked type T has its own Constructor Record with its own span, and an *)
(* empty T{} at a line of its span is not reported, also when two           *)
(* declarations of one file have the same name.                             *)
(***************************************************************************)
\* the constructor rule of FindConstructors holds of fn in f for type T
MatchesConstructorRule(f, fn, T) ==
    /\ HasPrefixNew(fn.name)
    /\ Len(fn.results) > 0
    /\ fn.results[1].k = "ident"
    /\ TypeKey(f.pkg, fn.results[1].sel) = T

C12_ConstructorsAccumulate ==
    \A r \in Runs :
        Reported(r) =>
            \A f \in Files : \A fn \in FuncsOf(f) : \A T \in report[r].Types :
                /\ Readable(f, "constructors")
                /\ Readable(f, "violations")
                /\ MatchesConstructorRule(f, fn, T)
                => /\ RecordsOf(report[r].Constructors, f, fn) # {}
                   /\ \A L \in fn.start..fn.end :
                         Violation(DeclaredName(kind[r]), T, f.path, L)
                             \notin report[r].Violations

(***************************************************************************)
(* C13: the violation scan resolves the type of an empty literal to the     *)
(* qualified name type detection recorded for the struct it names: T{} to   *)
(* <package of the file>.T, and p.T{} to <declaring package>.T, p being an  *)
(* alias or the default import name. So an empty literal of a recorded      *)
(* marked type, at a line outside every New function of its file, is        *)
(* reported, also when the last segment of the import path is not the name  *)
(* of the declaring package.                                                *)
(***************************************************************************)
\* the qualified names type detection records for the struct name of dir
RecordedNames(dir, name, k) ==
    {TypeKey(g.pkg, name) :
        g \in {h \in FilesIn(dir) :
                /\ Readable(h, "types")
                /\ \E s \in StructsOf(h) :
                      s.name = name /\ IsTypeDeclaration(k, h, s)}}

OutsideConstructors(f, L) ==
    \A fn \in FuncsOf(f) : HasPrefixNew(fn.name) => (L < fn.start \/ L > fn.end)

C13_LiteralResolvesToRecordedName ==
    \A r \in Runs :
        Reported(r) =>
            \A f \in Files : \A e \in LiteralsOf(f) : \A d \in Denoted(f, e.typ) :
                \A T \in RecordedNames(d, e.typ.sel, kind[r]) :
                    /\ Readable(f, "violations")
                    /\ e.elts = 0
                    => /\ ResolveTypeKey(f, e.typ) = <<T>>
                       /\ OutsideConstructors(f, e.line) =>
                             Violation(DeclaredName(kind[r]), T, f.path, e.line)
                                 \in report[r].Violations

(***************************************************************************)
(* C14: an empty literal of a struct that does not carry the marker is      *)
(* never reported, also when a marker-bearing struct of the same name is    *)
(* declared in another package of the tree, be it in another directory      *)
(* whose package clause has the same name; and a New function whose first   *)
(* result is the unmarked struct has no Constructor Record.                 *)
(***************************************************************************)
\* the type expression typ names a struct of the tree's packages in file f,
\* and no struct it names carries the marker of kind k
NamesUnmarked(f, typ, k) ==
    /\ Denoted(f, typ) # {}
    /\ \A d \in Denoted(f, typ) : ~MarkedIn(d, typ.sel, k)

C14_UnmarkedStructNeverReported ==
    \A r \in Runs :
        Reported(r) =>
            \A f \in Files :
                /\ \A e \in LiteralsOf(f) :
                      /\ Readable(f, "violations")
                      /\ e.elts = 0
                      /\ NamesUnmarked(f, e.typ, kind[r])
                      => Violation(DeclaredName(kind[r]), ResolveTypeKey(f, e.typ)[1],
                                   f.path, e.line) \notin report[r].Violations
                /\ \A fn \in FuncsOf(f) :
                      /\ Readable(f, "constructors")
                      /\ HasPrefixNew(fn.name)
                      /\ Len(fn.results) > 0
                      /\ NamesUnmarked(f, fn.results[1], kind[r])
                      => RecordsOf(report[r].Constructors, f, fn) = {}

(***************************************************************************)
(* C15: the report does not depend on the order in which the files are      *)
(* visited: over every permutation of the files of the tree, Validate       *)
(* returns the same Types, the same Constructors with their spans and the   *)
(* same Violations.                                                         *)
(***************************************************************************)
Orders(t) ==
    {[i \in 1..Len(t) |-> t[p[i]]] :
        p \in {q \in [1..Len(t) -> 1..Len(t)] :
                \A i, j \in 1..Len(t) : q[i] = q[j] => i = j}}

C15_ReportIndependentOfOrder ==
    \A r \in Runs :
        Done(r) /\ HasValidate(kind[r]) =>
            \A t \in Orders(tree) :
                report[r] = ValidateUnqualified(t, rootErr, kind[r])

(***************************************************************************)
(* C16: the phases of Validate run strictly one after the other. No         *)
(* constructor is recorded before type detection has seen every file, and   *)
(* no violation before constructor location has seen every file; so a       *)
(* constructor in a file visited before the file declaring its type is      *)
(* recorded, and an empty literal in a file visited before the declaration  *)
(* or the constructor is classified against the complete Types and          *)
(* Constructors.                                                            *)
(***************************************************************************)
\* every type that detection finds in some file of the tree is in types
TypesComplete(types, k) ==
    \A f \in Files :
        Readable(f, "types") => TypeDeclarationsInFile(f, k) \subseteq types

\* every declaration matching the constructor rule for a type of types has
\* its key in ctors
ConstructorsComplete(ctors, types) ==
    \A f \in Files : \A fn \in FuncsOf(f) : \A T \in types :
        Readable(f, "constructors") /\ MatchesConstructorRule(f, fn, T)
            => ConstructorKey(f.path, fn.name, T) \in DOMAIN ctors

C16_PhasesRunInOrder ==
    \A r \in Runs :
        /\ pc[r] = "types" => constructors[r] = EmptyMap /\ violations[r] = {}
        /\ pc[r] = "constructors" =>
              /\ TypesComplete(typeDeclarations[r], kind[r])
              /\ violations[r] = {}
        /\ pc[r] = "violations" =>
              /\ TypesComplete(typeDeclarations[r], kind[r])
              /\ ConstructorsComplete(constructors[r], typeDeclarations[r])
        /\ Reported(r) =>
              /\ TypesComplete(report[r].Types, kind[r])
              /\ ConstructorsComplete(report[r].Constructors, report[r].Types)
              /\ \A f \in Files : \A e \in LiteralsOf(f) :
                    \A T \in report[r].Types :
                        /\ Readable(f, "violations")
                        /\ e.elts = 0
                        /\ ResolveTypeKey(f, e.typ) = <<T>>
                        => (Violation(DeclaredName(kind[r]), T, f.path, e.line)
                                \in report[r].Violations
                            <=> ~Exempted(report[r].Constructors, T, f.path, e.line))

\* the file visited first holds a constructor of a type that the file visited
\* second declares, and an empty literal of it outside the constructor: the
\* constructor is recorded and the literal reported
C16_Witness ==
    \E r \in Runs :
        /\ Reported(r)
        /\ Len(tree) = 2
        /\ \E T \in report[r].Types :
              /\ DeclaredIn(tree[2], T)
              /\ ~DeclaredIn(tree[1], T)
              /\ \E fn \in FuncsOf(tree[1]) :
                    /\ MatchesConstructorRule(tree[1], fn, T)
                    /\ RecordsOf(report[r].Constructors, tree[1], fn) # {}
              /\ \E L \in Lines :
                    /\ EmptyLiteralAt(tree[1], T, L)
                    /\ Violation(DeclaredName(kind[r]), T, tree[1].path, L)
                          \in report[r].Violations

(***************************************************************************)
(* C17: a file that fails to parse is dropped from all three phases and     *)
(* raises no error: no violation and no Constructor Record names it, a type *)
(* that only it declares is not in Types, the error of Validate is nil, and *)
(* Validate returns what it returns over the tree without that file.        *)
(***************************************************************************)
RECURSIVE ParsedFiles(_, _)
ParsedFiles(t, i) ==
    IF i > Len(t) THEN <<>>
    ELSE (IF t[i].parses THEN <<t[i]>> ELSE <<>>) \o ParsedFiles(t, i + 1)

C17_UnparseableFileDropped ==
    \A r \in Runs :
        Done(r) /\ HasValidate(kind[r]) =>
            /\ err[r] = NoError
            /\ report[r] = Validate(ParsedFiles(tree, 1), rootErr, kind[r])
            /\ \A f \in Files :
                  ~f.parses =>
                      /\ \A v \in report[r].Violations : v[3] # f.path
                      /\ \A key \in DOMAIN report[r].Constructors :
                            report[r].Constructors[key].File # f.path
                      /\ \A T \in report[r].Types :
                            \E g \in Files : g.parses /\ DeclaredIn(g, T)

\* next to a file whose violation is reported, a Go source file that cannot
\* be parsed, with a marker-bearing struct, a New function and an empty
\* literal: a report without any of them, and a nil error
C17_Witness ==
    \E r \in Runs :
        /\ Reported(r)
        /\ err[r] = NoError
        /\ report[r].Violations # {}
        /\ \E f \in Files :
              /\ ~f.parses
              /\ SourceFile(f)
              /\ f.errs = {}
              /\ Len(f.funcs) > 0
              /\ LiteralsOf(f) # {}
              /\ \E s \in StructsOf(f) :
                    /\ CarriesMarker(f, s, kind[r])
                    /\ TypeKey(f.pkg, s.name) \notin report[r].Types

(***************************************************************************)
(* C18: Violations is a set of records, one for each (type, file, line) at  *)
(* which a reportable empty literal stands: several empty literals of one   *)
(* marked type on one line, and one literal reached as a literal and as a   *)
(* right-hand side or result, give one record; empty literals on different  *)
(* lines or in different files give different records.                      *)
(***************************************************************************)
\* the (type, path, line) at which the scan of report rep finds a reportable
\* empty literal
ReportableLocations(rep) ==
    {<<x[1], x[2].path, x[3]>> :
        x \in {y \in rep.Types \X Files \X Lines :
                /\ Readable(y[2], "violations")
                /\ EmptyLiteralAt(y[2], y[1], y[3])
                /\ ~Exempted(rep.Constructors, y[1], y[2].path, y[3])}}

RecordsAt(rep, loc) ==
    {v \in rep.Violations : v[2] = loc[1] /\ v[3] = loc[2] /\ v[4] = loc[3]}

C18_DuplicateOccurrencesCollapse ==
    \A r \in Runs :
        Reported(r) =>
            /\ Cardinality(report[r].Violations)
                  = Cardinality(ReportableLocations(report[r]))
            /\ \A loc \in ReportableLocations(report[r]) :
                  Cardinality(RecordsAt(report[r], loc)) = 1

\* three reportable empty Money{}, two of them on one line of one assignment
\* or return, which the scan reaches as statement and as literals: two records
C18_Witness ==
    \E r \in Runs :
        /\ Reported(r)
        /\ Len(tree) = 1
        /\ Len(tree[1].stmts) = 2
        /\ tree[1].stmts[1].exprs[1].line = tree[1].stmts[1].exprs[2].line
        /\ tree[1].stmts[2].exprs[1].line # tree[1].stmts[1].exprs[1].line
        /\ \A e \in LiteralsOf(tree[1]) :
              /\ e.elts = 0
              /\ Violation(DeclaredName(kind[r]), OccurrenceType(tree[1], e.typ),
                           tree[1].path, e.line) \in report[r].Violations
        /\ Cardinality(report[r].Violations) = 2

(***************************************************************************)
(* C19: once type detection has returned, no step changes the Types set:    *)
(* constructor location and the violation scan only read it, the violation  *)
(* scan only reads the Constructors map, and the report holds exactly the   *)
(* set FindTypeDeclarations returned and the map FindConstructors returned. *)
(***************************************************************************)
C19_TypesImmutableAfterDetection ==
    [][\A r \in Runs :
          /\ pc[r] \in {"constructors", "violations", "done"} =>
                typeDeclarations'[r] = typeDeclarations[r]
          /\ pc[r] \in {"violations", "done"} => constructors'[r] = constructors[r]
          /\ pc[r] = "violations" /\ pc'[r] = "done" /\ err'[r] = NoError =>
                /\ ~report'[r].nil
                /\ report'[r].Types = typeDeclarations[r]
                /\ report'[r].Constructors = constructors[r]]_vars

\* a returned report whose Types holds a type without constructor next to one
\* with a constructor, equal to the set type detection left
C19_Witness ==
    \E r \in Runs :
        /\ Reported(r)
        /\ report[r].Types = typeDeclarations[r]
        /\ report[r].Constructors = constructors[r]
        /\ DOMAIN report[r].Constructors # {}
        /\ \E T \in report[r].Types :
              \A key \in DOMAIN report[r].Constructors : key[3] # T

(***************************************************************************)
(* C20: a filesystem error on an entry below the root is recovered locally. *)
(* The entry is skipped in the walk that met the error, the walk goes on    *)
(* with the other entries, Validate returns no error, and the types,        *)
(* constructors and violations of the other files are reported: when the    *)
(* failing entries fail in every walk, the report is the one over the tree  *)
(* without them.                                                            *)
(***************************************************************************)
RECURSIVE EntriesWithoutError(_, _)
EntriesWithoutError(t, i) ==
    IF i > Len(t) THEN <<>>
    ELSE (IF t[i].errs = {} THEN <<t[i]>> ELSE <<>>) \o EntriesWithoutError(t, i + 1)

C20_EntryErrorSkipped ==
    \A r \in Runs :
        Done(r) /\ HasValidate(kind[r]) /\ ~rootErr =>
            /\ err[r] = NoError
            /\ TypesComplete(typeDeclarations[r], kind[r])
            /\ (\A f \in Files : f.errs \in {{}, Phases}) =>
                  report[r] = Validate(EntriesWithoutError(tree, 1), rootErr, kind[r])
            /\ Reported(r) =>
                  /\ ConstructorsComplete(report[r].Constructors, report[r].Types)
                  /\ \A loc \in ReportableLocations(report[r]) :
                        RecordsAt(report[r], loc) # {}
                  /\ \A f \in Files :
                        /\ "constructors" \in f.errs =>
                              \A key \in DOMAIN report[r].Constructors :
                                  report[r].Constructors[key].File # f.path
                        /\ "violations" \in f.errs =>
                              \A v \in report[r].Violations : v[3] # f.path

\* the entry visited first cannot be read in any walk; the walks go on, and
\* the type, the constructor and the violation of the file visited after it
\* are reported with a nil error
C20_Witness ==
    \E r \in Runs :
        /\ Reported(r)
        /\ err[r] = NoError
        /\ ~rootErr
        /\ Len(tree) = 2
        /\ tree[1].errs = Phases
        /\ tree[1].parses
        /\ SourceFile(tree[1])
        /\ \E T \in report[r].Types : DeclaredIn(tree[2], T)
        /\ \E key \in DOMAIN report[r].Constructors :
              report[r].Constructors[key].File = tree[2].path
        /\ \E v \in report[r].Violations : v[3] = tree[2].path

(***************************************************************************)
(* C21: FindProjectRoot always terminates. From the directory of the        *)
(* caller's file it moves to the parent directory at each turn and returns  *)
(* the nearest directory on that upward path, the starting directory        *)
(* included, in which go.mod is found, with a nil error; when none has      *)
(* one, it stops at the path that is its own parent and returns the empty   *)
(* string with a non-nil error.                                             *)
(***************************************************************************)
\* the directories on the upward path of the caller's file with a go.mod
RootCandidates == Ancestors(Dir(callerFile)) \cap goModDirs

Nearest(S) == CHOOSE x \in S : \A y \in S : Len(y) <= Len(x)

ProjectRootReturned == rootPc = "done"

C21_FindProjectRootTerminates ==
    /\ <>ProjectRootReturned
    /\ [][rootPc = "loop" /\ rootPc' = "loop" =>
            current' = Dir(current) /\ Len(current') < Len(current)]_vars
    /\ [](ProjectRootReturned /\ callerOk =>
            IF RootCandidates = {}
            THEN /\ projectRoot = NoPath
                 /\ projectRootErr # NoError
                 /\ current = Dir(current)
            ELSE /\ projectRoot = SomePath(Nearest(RootCandidates))
                 /\ projectRootErr = NoError)

\* go.mod lies two levels above the caller's directory and again above that:
\* the nearer directory is returned
C21_Witness ==
    /\ ProjectRootReturned
    /\ callerOk
    /\ Cardinality(RootCandidates) = 2
    /\ projectRootErr = NoError
    /\ projectRoot # NoPath
    /\ Len(projectRoot[1]) + 2 = Len(Dir(callerFile))
    /\ \E a \in RootCandidates : Len(a) < Len(projectRoot[1])

(***************************************************************************)
(* C22: the three parts of a returned report agree. Every Constructor       *)
(* Record produces a member of Types, has StartLine <= EndLine and a File   *)
(* that is a non-test .go file of the tree; every violation names a member  *)
(* of Types, and its file and line lie in the span of no Constructor Record *)
(* of the same type in the same file.                                       *)
(***************************************************************************)
SourcePaths == {f.path : f \in {g \in Files : SourceFile(g)}}

C22_ReportPartsConsistent ==
    \A r \in Runs :
        Reported(r) =>
            /\ \A key \in DOMAIN report[r].Constructors :
                  /\ key[3] \in report[r].Types
                  /\ report[r].Constructors[key].StartLine
                        <= report[r].Constructors[key].EndLine
                  /\ report[r].Constructors[key].File \in SourcePaths
            /\ \A v \in report[r].Violations :
                  /\ v[2] \in report[r].Types
                  /\ ~Exempted(report[r].Constructors, v[2], v[3], v[4])

\* a report with a Constructor Record and two violations of its type in its
\* file, one on the line before the span and one on the line after it
C22_Witness ==
    \E r \in Runs :
        /\ Reported(r)
        /\ \E key \in DOMAIN report[r].Constructors :
              LET c == report[r].Constructors[key]
              IN  /\ c.StartLine = c.EndLine
                  /\ \E v \in report[r].Violations, w \in report[r].Violations :
                        /\ v[2] = key[3] /\ w[2] = key[3]
                        /\ v[3] = c.File /\ w[3] = c.File
                        /\ v[4] + 1 = c.StartLine
                        /\ w[4] = c.EndLine + 1

(***************************************************************************)
(* C23: the assignment and return branches of the violation scan add        *)
(* nothing to the composite-literal branch. For every tree the Violations   *)
(* of a report equal the set a scanner finds that acts on composite-literal *)
(* nodes only, although the two branches look at the first composite        *)
(* literal among the right-hand sides or results and at no other.           *)
(***************************************************************************)
\* the callback of a scanner with the composite-literal branch alone
LiteralOnlyVisit(file, node, markerName, types, ctors, viol) ==
    IF node.k # "lit" THEN viol
    ELSE VisitNode(file, node, markerName, types, ctors, viol)

RECURSIVE LiteralOnlyInNodes(_, _, _, _, _, _, _)
LiteralOnlyInNodes(file, nodes, markerName, types, ctors, viol, i) ==
    IF i > Len(nodes) THEN viol
    ELSE LiteralOnlyInNodes(file, nodes, markerName, types, ctors,
                            LiteralOnlyVisit(file, nodes[i], markerName, types, ctors, viol),
                            i + 1)

RECURSIVE LiteralOnlyScan(_, _, _, _, _, _)
LiteralOnlyScan(entries, markerName, types, ctors, viol, i) ==
    IF i > Len(entries) THEN viol
    ELSE LiteralOnlyScan(entries, markerName, types, ctors,
            IF WalkFuncSkips(entries[i], "violations") THEN viol
            ELSE LiteralOnlyInNodes(entries[i], InspectNodes(entries[i].stmts, 1),
                                    markerName, types, ctors, viol, 1),
            i + 1)

C23_StatementBranchesRedundant ==
    \A r \in Runs :
        Reported(r) =>
            report[r].Violations =
                LiteralOnlyScan(Entries, DeclaredName(kind[r]), report[r].Types,
                                report[r].Constructors, {}, 1)

\* an assignment or a return whose first composite literal has elements and
\* whose second is an empty literal of a marked type on another line: the
\* second is reported, and the statement's own branch never looks at it
C23_Witness ==
    \E r \in Runs :
        /\ Reported(r)
        /\ \E f \in Files : \E i \in 1..Len(f.stmts) :
              LET s == f.stmts[i]
              IN  /\ s.k \in {"assign", "return"}
                  /\ Len(s.exprs) = 2
                  /\ s.exprs[1].form = "lit" /\ s.exprs[1].elts # 0
                  /\ s.exprs[2].form = "lit" /\ s.exprs[2].elts = 0
                  /\ s.exprs[2].line # s.exprs[1].line
                  /\ SelectCompositeLit(s) = <<s.exprs[1]>>
                  /\ report[r].Violations =
                        {Violation(DeclaredName(kind[r]),
                                   ResolveTypeKey(f, s.exprs[2].typ)[1],
                                   f.path, s.exprs[2].line)}

====
